---- MODULE Spec2Model ----
(***************************************************************************)
(* The auto-scroll / auto-centring engine of the teleprompter              *)
(* (src/components/Teleprompter.tsx) with the settings store of            *)
(* src/App.tsx, as a state machine.                                        *)
(*                                                                         *)
(* Numbers.  JavaScript numbers are modelled in fixed point:               *)
(*   lengths (scroll offsets, line boxes)  in 1/20 px,                     *)
(*   scrollSpeed                           in 1/10 unit per second,        *)
(*   lineSpacing                           in 1/10,                        *)
(*   timestamps                            in ms.                          *)
(* The inputs below are chosen so that every product and quotient the      *)
(* engine computes is exact at this resolution.                            *)
(*                                                                         *)
(* React.  A state setter only queues its update; the component re-renders *)
(* later and its passive effects run after that render.  For every piece   *)
(* of React state the model keeps the queued value (pending...) and the    *)
(* value of the last render; the action Commit is one render followed by   *)
(* the effects whose dependencies changed.  Animation frames, timers and   *)
(* observer callbacks are separate actions and may run between a handler   *)
(* and the Commit that follows it.                                         *)
(***************************************************************************)
EXTENDS Integers, FiniteSets, Sequences, TLC

VARIABLES
  mounted,              \* scrollContainerRef.current is set (the prompter renders)
  detached,             \* the prompter was removed and its effect cleanups have not run yet
  settings,             \* the settings prop of the last render
  pendingSettings,      \* App's settings state with the queued updates applied
  settingsRef,          \* settingsRef.current
  scrollSpeedRef,       \* scrollSpeedRef.current
  isScrolling,          \* isScrolling of the last render
  pendingIsScrolling,   \* isScrolling with the queued updates applied
  isScrollingRef,       \* isScrollingRef.current
  frames,               \* animationFrameRef.current and the frames requested
  lastTimestampRef,     \* lastTimestampRef.current
  scrollPositionRef,    \* scrollPositionRef.current, the accumulator
  scrollTop,            \* scrollContainerRef.current.scrollTop
  activeLineIndices,    \* activeLineIndices of the last render
  pendingActive,        \* activeLineIndices with the queued updates applied
  activeLineIndicesRef, \* activeLineIndicesRef.current
  observed,             \* per line, what the IntersectionObserver last reported
  elapsedTime,          \* elapsedTime with the queued updates applied
  intervals,            \* number of one-second intervals set and not cleared
  isEditing,            \* isEditing of the last render (the editor dialog shows)
  pendingIsEditing,     \* isEditing with the queued updates applied
  isEditingRef,         \* isEditingRef.current
  lines,                \* number of lines of script.content of the last render
  pendingLines,         \* the same with App's queued script update applied
  isDraggingGuide,      \* isDraggingGuide of the last render (drag listeners attached)
  pendingIsDraggingGuide, \* isDraggingGuide with the queued updates applied
  history,              \* useHistory: history of the editor's last render
  currentIndex,         \* useHistory: currentIndex of the editor's last render
  pendingHistory,       \* useHistory: history with the queued updates applied
  pendingIndex,         \* useHistory: currentIndex with the queued updates applied
  editorState,          \* ScriptEditor: editorState of the last render
  pendingEditorState,   \* ScriptEditor: editorState with the queued updates applied
  script,               \* ScriptEditor: title and content of the script prop of the last render
  pendingScript,        \* App's active script with the queued updates applied
  debounce,             \* ScriptEditor: the value the pending 500 ms timeout commits, or "none"
  autoSaveRef,          \* ScriptEditor: autoSaveRef.current
  undone,               \* history: the undo whose effect is still in place
  currentView,          \* App: currentView
  activeScript,         \* App: the id of activeScript, NoScript for null
  scripts,              \* App: the ids of the stored scripts
  unsaved,              \* ScriptEditor under App: editorState differs from the script prop
  recorderMounted,      \* Recorder: the component is mounted
  selectedVideoDeviceId, \* Recorder: selectedVideoDeviceId, NoDevice for undefined
  videoStream,          \* Recorder: videoStream, NoStream for null
  isMuted,              \* Recorder: isMuted
  streams,              \* the streams getUserMedia has returned: tracks live, audio enabled
  requests,             \* the getUserMedia calls of startCamera that are pending
  cleanupStream,        \* Recorder: videoStream in the closure of the last camera effect
  inputsUsed,           \* number of speed and Controls inputs so far
  cmd,                  \* history: the last command of the user
  run                   \* history: the scroll session since the last play

vars == <<mounted, detached, settings, pendingSettings, settingsRef, scrollSpeedRef,
          isScrolling, pendingIsScrolling, isScrollingRef, frames,
          lastTimestampRef, scrollPositionRef, scrollTop, activeLineIndices,
          pendingActive, activeLineIndicesRef, observed, elapsedTime, intervals,
          isEditing, pendingIsEditing, isEditingRef, lines, pendingLines, isDraggingGuide,
          pendingIsDraggingGuide, history, currentIndex, pendingHistory,
          pendingIndex, editorState, pendingEditorState, script, pendingScript,
          debounce, autoSaveRef, undone, currentView, activeScript, scripts, unsaved,
          recorderMounted, selectedVideoDeviceId, videoStream, isMuted,
          streams, requests, cleanupStream, inputsUsed, cmd, run>>

----------------------------------------------------------------------------
(* Bounds of the model *)

\* The number of scripts the user creates.
MaxScripts == 3

\* The number of getUserMedia calls of startCamera.
MaxStreams == 3

\* Timestamp of the first frame after the timing reference was reset.
FirstStamp == 1000
\* The elapsed-time counter is followed up to this many seconds.
MaxElapsed == 1
\* Number of speed inputs (wheel, arrow keys) and guide drags followed in
\* one behaviour.
MaxInputs == 1

\* Number of speed inputs in a row with the same delta that are followed
\* when they arrive before the prompter has rendered the first of them.
MaxBurst == 2

\* Number of zoom and spacing commands followed in one behaviour.
MaxZooms == 2

\* Largest number of entries the history buffer is followed to.
MaxHistory == 3

\* Time between two consecutive frames, in ms.
DeltaTimes == {500, 1000}
\* Largest timestamp a frame is given before the time origin is shifted.
MaxTime == FirstStamp + 1000

----------------------------------------------------------------------------
(* Program constants *)

\* A settings field DEFAULT_SETTINGS does not set.
Undefined == -1

MinSpeed == 10
MaxSpeed == 1000
\* handleScrollChange: delta * 0.5 in tenths.
WheelSpeedStep == 5
\* handleScrollChange: delta * 20 px.
PausedScrollStep == 400
\* scroll: the 1px buffer of the end test.
EndBuffer == 20
MinFontSize == 12
MaxFontSize == 120
MinLineSpacing == 10
MaxLineSpacing == 30
MinGuide == 10
MaxGuide == 90
\* handleKeyDown: handleFontSizeChange(2) and handleFontSizeChange(-2)
FontSizeStep == 2
\* handleKeyDown: handleLineSpacingChange(0.1) and (-0.1), in tenths
LineSpacingStep == 1
\* (autoCenterSensitivity || 50)
DefaultSensitivity == 50

DEFAULT_SETTINGS ==
  [scrollSpeed |-> 200, fontSize |-> 48, lineSpacing |-> 15,
   isMirrorMode |-> FALSE, guidePosition |-> Undefined,
   guideZoneSize |-> Undefined, autoCenterSensitivity |-> Undefined]

\* Settings useLocalStorage finds stored by an earlier session.
StoredSettings ==
  {[DEFAULT_SETTINGS EXCEPT !.scrollSpeed = MinSpeed, !.guidePosition = 50,
                            !.guideZoneSize = 10, !.autoCenterSensitivity = 0],
   [DEFAULT_SETTINGS EXCEPT !.scrollSpeed = MaxSpeed, !.guidePosition = 50,
                            !.guideZoneSize = 10, !.autoCenterSensitivity = 100]}

----------------------------------------------------------------------------
(* Layout of the scroll container: the 50vh spacer, the lines, the spacer *)

Layout == [clientHeight |-> 200, spacer |-> 120, lineHeight |-> 40, lines |-> 2]

\* The indices of the rendered lines (lineRefs.current[i] is an element).
Lines == 0 .. (lines - 1)

\* scrollHeight and scrollHeight - clientHeight with n lines of content
ScrollHeightOf(n) == 2 * Layout.spacer + n * Layout.lineHeight
MaxScrollOf(n) == ScrollHeightOf(n) - Layout.clientHeight

ScrollHeight == ScrollHeightOf(lines)

MaxScroll == MaxScrollOf(lines)

Max(a, b) == IF a >= b THEN a ELSE b
Min(a, b) == IF a <= b THEN a ELSE b

\* Assigning v to scrollTop: the browser keeps it in [0, scrollHeight - clientHeight].
ClampScroll(v) == Max(0, Min(MaxScroll, v))

\* Top of line i relative to the container top, at scroll position top.
LineTop(i, top) == Layout.spacer + i * Layout.lineHeight - top

\* lineRect.top - containerRect.top + lineRect.height / 2
LineCentre(i, top) == LineTop(i, top) + Layout.lineHeight \div 2

\* Variant: a line counts once it lies wholly within the band.
Intersects_Contained(i, top, g, z) ==
  /\ LineTop(i, top) * 200 >= Layout.clientHeight * (2 * g - z)
  /\ (LineTop(i, top) + Layout.lineHeight) * 200 <= Layout.clientHeight * (2 * g + z)

\* The observer's root band [g - z/2, g + z/2] percent of the container
\* height; a line intersects it when their spans meet (threshold 0).
Intersects(i, top, g, z) ==
  /\ (LineTop(i, top) + Layout.lineHeight) * 200 >= Layout.clientHeight * (2 * g - z)
  /\ LineTop(i, top) * 200 <= Layout.clientHeight * (2 * g + z)

RECURSIVE SumCentres(_, _)
SumCentres(S, top) ==
  IF S = {} THEN 0
  ELSE LET i == CHOOSE x \in S : TRUE
       IN LineCentre(i, top) + SumCentres(S \ {i}, top)

----------------------------------------------------------------------------
(* Animation frames.  ref is animationFrameRef.current: "none" (undefined), *)
(* "pending" (the id of a frame that is scheduled) or "dead" (the id of a   *)
(* frame that has run or was cancelled).  orphans counts the frames that    *)
(* are scheduled and whose id animationFrameRef no longer holds.            *)

NoFrames == [ref |-> "none", orphans |-> 0]

\* animationFrameRef.current = requestAnimationFrame(scroll)
RequestFrame(fr) ==
  [ref |-> "pending",
   orphans |-> fr.orphans + (IF fr.ref = "pending" THEN 1 ELSE 0)]

\* Variant: the cleanup that cancels nothing.
CancelFrame_Nothing(fr) == fr

\* if (animationFrameRef.current) cancelAnimationFrame(animationFrameRef.current)
CancelFrame(fr) ==
  IF fr.ref = "pending" THEN [fr EXCEPT !.ref = "dead"] ELSE fr

\* The frames the browser may run next.
Scheduled(fr) ==
  (IF fr.ref = "pending" THEN {"ref"} ELSE {}) \cup
  (IF fr.orphans > 0 THEN {"orphan"} ELSE {})

\* The browser takes frame f off its list to run it.
FireFrame(fr, f) ==
  IF f = "ref" THEN [fr EXCEPT !.ref = "dead"]
  ELSE [fr EXCEPT !.orphans = @ - 1]

----------------------------------------------------------------------------
(* The arithmetic of scroll(timestamp) *)

\* lastTimestampRef after "if (lastTimestampRef.current === 0) ... = timestamp"
TimingReference(last, timestamp) == IF last = 0 THEN timestamp ELSE last

\* Variant: a fixed advance per frame, whatever time has passed.
ScrollAmount_PerFrame(speed, deltaTime) == speed

\* (scrollSpeedRef.current * deltaTime) / 1000, in 1/20 px
ScrollAmount(speed, deltaTime) == (speed * deltaTime) \div 500

\* (settingsRef.current.autoCenterSensitivity || 50) / 100, in percent
SensitivityMultiplier(st) ==
  IF st.autoCenterSensitivity = 0 THEN DefaultSensitivity
  ELSE st.autoCenterSensitivity

\* Variant: only the first active line is measured.
CentreError_FirstLine(active, top, st) ==
  LineCentre(CHOOSE i \in active : \A j \in active : i <= j, top)
    - (Layout.clientHeight * st.guidePosition) \div 100

\* avgLineVCenterInContainer - targetY
CentreError(active, top, st) ==
  SumCentres(active, top) \div Cardinality(active)
    - (Layout.clientHeight * st.guidePosition) \div 100

\* error * (0.004 * sensitivityMultiplier) * deltaTime
Correction(active, top, st, deltaTime) ==
  IF active = {} THEN 0
  ELSE (CentreError(active, top, st) * SensitivityMultiplier(st) * deltaTime)
         \div 25000

\* Variant: every index counts, rendered or not.
ActiveLines_Unfiltered(indices) == indices

\* The lines of activeLineIndicesRef that have a rendered element.
ActiveLines(indices) == indices \cap Lines

\* The intersection state of every line at scroll position top for the
\* band the observer was created with.
InBand(top, st) ==
  {i \in Lines : Intersects(i, top, st.guidePosition, st.guideZoneSize)}


----------------------------------------------------------------------------
(* Variable groups *)

settingsVars == <<settings, pendingSettings, settingsRef, scrollSpeedRef>>
playVars == <<isScrolling, pendingIsScrolling, isScrollingRef>>
scrollVars == <<lastTimestampRef, scrollPositionRef, scrollTop>>
activeVars == <<activeLineIndices, pendingActive, activeLineIndicesRef, observed>>
editVars == <<isEditing, pendingIsEditing, isEditingRef>>
contentVars == <<lines, pendingLines>>
dragVars == <<isDraggingGuide, pendingIsDraggingGuide>>
historyVars == <<history, currentIndex, pendingHistory, pendingIndex>>
editorVars == <<editorState, pendingEditorState, script, pendingScript,
                debounce, autoSaveRef>>
appVars == <<currentView, activeScript, scripts, unsaved>>
\* The state of the components around the prompter and the editor.
recorderVars == <<recorderMounted, selectedVideoDeviceId, videoStream, isMuted,
                  streams, requests, cleanupStream>>
restVars == <<appVars, recorderVars>>

----------------------------------------------------------------------------
(* History variables *)

NoRun == [st |-> "none", off |-> 0, speed |-> 0, t0 |-> 0, resumed |-> FALSE]

\* The session record after a frame at timestamp: the first frame after
\* play opens it; it stays open while the speed is the one it started
\* with and no frame finds an active line.
RunAfterTick(timestamp, active) ==
  IF run.st = "armed"
    THEN [run EXCEPT !.st = IF active = {} THEN "on" ELSE "none",
                     !.off = scrollPositionRef, !.speed = scrollSpeedRef,
                     !.t0 = timestamp]
  ELSE IF run.st = "on" /\ run.speed = scrollSpeedRef /\ active = {} THEN run
  ELSE NoRun

----------------------------------------------------------------------------
(* useHistory: the undo buffer of the script editor *)

\* The snapshots the editor hands to the buffer, and the one it starts with.
Snapshots == {"a", "b"}
InitialSnapshot == "a"

\* h[i] of a JavaScript array with 0-based index i; undefined outside it.
EntryAt(h, i) == IF i \in 0 .. (Len(h) - 1) THEN h[i + 1] ELSE "undefined"

\* h.slice(0, end)
Slice(h, end) == SubSeq(h, 1, Max(0, Min(Len(h), end)))

\* history.slice(0, currentIndex + 1)
Truncated(h, index) == Slice(h, index + 1)

\* activeScript === null
NoScript == 0

\* No undo is on record.
NotUndone == [on |-> FALSE, entry |-> "none", tail |-> <<>>, committed |-> FALSE]

\* The state of everything but the hook and the editor.
prompterVars ==
  <<mounted, settingsVars, playVars, frames, scrollVars, activeVars,
    elapsedTime, editVars, contentVars, dragVars, inputsUsed, cmd, run,
    detached, intervals>>

\* Variant: the value is never taken for the current entry.
SameAsCurrent_Never(value, h, index) == FALSE

\* JSON.stringify(value) === JSON.stringify(history[currentIndex])
SameAsCurrent(value, h, index) == value = EntryAt(h, index)

\* newHistory of setState(value): history.slice(0, currentIndex + 1) with
\* value pushed.
Pushed(h, index, value) == Append(Truncated(h, index), value)

\* setState(value): history and currentIndex are those of the render the
\* callback was created in; both setters are given values, not updaters.
SetState ==
  \E value \in Snapshots :
    LET newHistory == Pushed(history, currentIndex, value)
    IN /\ ~SameAsCurrent(value, history, currentIndex)
       /\ Len(newHistory) <= MaxHistory
       /\ pendingHistory' = newHistory
       /\ pendingIndex' = Len(newHistory) - 1
       /\ undone' = NotUndone
       /\ UNCHANGED <<history, currentIndex>>
       /\ UNCHANGED <<prompterVars, editorVars, restVars>>

\* Variant: the reset that keeps the cursor where it is.
ResetTo_KeepsCursor(value, index) == [history |-> <<value>>, index |-> index]

\* setHistory([newInitialState]); setCurrentIndex(0)
ResetTo(value, index) == [history |-> <<value>>, index |-> 0]

\* resetState(newInitialState)
ResetState ==
  \E value \in Snapshots :
    /\ pendingHistory' = ResetTo(value, pendingIndex).history
    /\ pendingIndex' = ResetTo(value, pendingIndex).index
    /\ undone' = NotUndone
    /\ UNCHANGED <<history, currentIndex>>
    /\ UNCHANGED <<prompterVars, editorVars, restVars>>

\* const canUndo = currentIndex > 0
canUndo == currentIndex > 0

\* const canRedo = currentIndex < history.length - 1
canRedo == currentIndex < Len(history) - 1

\* undo(): the test reads currentIndex of the render the callback was
\* created in, the updater prev => prev - 1 the queued value. The undo is
\* put on record when it acts on the state that is rendered and the editor
\* shows the entry it leaves.
Undo ==
  /\ currentIndex > 0
  /\ pendingIndex > -MaxHistory
  /\ pendingIndex' = pendingIndex - 1
  /\ undone' = IF /\ <<pendingHistory, pendingIndex>> = <<history, currentIndex>>
                  /\ pendingEditorState = EntryAt(history, currentIndex)
                  /\ editorState = pendingEditorState
                  /\ pendingScript = script
                  /\ debounce \in {"none", editorState}
                 THEN [on |-> TRUE, entry |-> EntryAt(history, currentIndex),
                       tail |-> history, committed |-> FALSE]
               ELSE NotUndone
  /\ UNCHANGED <<history, currentIndex, pendingHistory>>
  /\ UNCHANGED <<prompterVars, editorVars, restVars>>

\* redo()
Redo ==
  /\ currentIndex < Len(history) - 1
  /\ pendingIndex < 2 * MaxHistory
  /\ pendingIndex' = pendingIndex + 1
  /\ undone' = NotUndone
  /\ UNCHANGED <<history, currentIndex, pendingHistory>>
  /\ UNCHANGED <<prompterVars, editorVars, restVars>>

\* One render of the component that uses the hook.
HistoryCommit ==
  /\ <<pendingHistory, pendingIndex>> # <<history, currentIndex>>
  /\ history' = pendingHistory
  /\ currentIndex' = pendingIndex
  /\ UNCHANGED <<pendingHistory, pendingIndex, undone>>
  /\ UNCHANGED <<prompterVars, editorVars, restVars>>

----------------------------------------------------------------------------
(* ScriptEditor: the editor around the undo buffer *)

\* The editor as a record: what the last render showed, the queued
\* updates, the pending debounce timeout and autoSaveRef.current.
EditorNow ==
  [history |-> history, currentIndex |-> currentIndex,
   pendingHistory |-> pendingHistory, pendingIndex |-> pendingIndex,
   editorState |-> editorState, pendingEditorState |-> pendingEditorState,
   script |-> script, pendingScript |-> pendingScript,
   debounce |-> debounce, autoSaveRef |-> autoSaveRef]

\* Variant: the ref keeps what it was created with.
RefAfterRender_Captured(ref, s, e) == ref

\* useEffect without dependencies: autoSaveRef.current = {onSave, script,
\* editorState} after every render.
RefAfterRender(ref, s, e) == [script |-> s, editorState |-> e]

\* Variant: the editor that never resets its buffer.
ScriptPropChanged_Never(old, new) == FALSE

\* The dependencies [script.id, script.title, script.content] differ.
ScriptPropChanged(old, new) == old # new

\* One render of the editor and the passive effects that follow it, in the
\* order of the source: the history -> editor sync, the reset on a new
\* script prop, the debounce timeout, autoSaveRef.
Render(r) ==
  LET h == r.pendingHistory
      i == r.pendingIndex
      e == r.pendingEditorState
      s == r.pendingScript
      historyChanged == <<h, i>> # <<r.history, r.currentIndex>>
      reset == ResetTo(s, i)
  IN [history |-> h, currentIndex |-> i, editorState |-> e, script |-> s,
      pendingScript |-> s,
      pendingEditorState |-> IF historyChanged THEN EntryAt(h, i) ELSE e,
      pendingHistory |-> IF ScriptPropChanged(r.script, s) THEN reset.history
                         ELSE h,
      pendingIndex |-> IF ScriptPropChanged(r.script, s) THEN reset.index
                       ELSE i,
      debounce |-> IF historyChanged \/ e # r.editorState THEN e
                   ELSE r.debounce,
      autoSaveRef |-> RefAfterRender(r.autoSaveRef, s, e)]

\* The render throws at editorState.title once the cursor has left the
\* buffer: the editor is gone, with its timers.
Crashed(r) ==
  [r EXCEPT !.editorState = "undefined", !.pendingEditorState = "undefined",
            !.debounce = "none"]

\* The renders that follow each other without a pause: an update queued by
\* an effect is rendered at once, before any timer or input.
Settled(r) ==
  LET r1 == Render(r)
      r2 == IF r1.pendingEditorState = "undefined" THEN Crashed(r1)
            ELSE Render(r1)
      r3 == IF r2.pendingEditorState = "undefined" THEN Crashed(r2)
            ELSE Render(r2)
  IN IF r3.pendingEditorState = "undefined" THEN Crashed(r3) ELSE r3

\* The editor is rendered.
EditorAlive == editorState # "undefined"

\* Nothing is queued for the next render.
EditorRendered ==
  /\ <<pendingHistory, pendingIndex>> = <<history, currentIndex>>
  /\ pendingEditorState = editorState
  /\ pendingScript = script

EditorCommit ==
  /\ EditorAlive
  /\ ~EditorRendered
  /\ LET r == Settled(EditorNow)
     IN /\ history' = r.history
        /\ currentIndex' = r.currentIndex
        /\ pendingHistory' = r.pendingHistory
        /\ pendingIndex' = r.pendingIndex
        /\ editorState' = r.editorState
        /\ pendingEditorState' = r.pendingEditorState
        /\ script' = r.script
        /\ pendingScript' = r.pendingScript
        /\ debounce' = r.debounce
        /\ autoSaveRef' = r.autoSaveRef
        /\ undone' = IF ScriptPropChanged(script, pendingScript) THEN NotUndone
                     ELSE undone
  /\ UNCHANGED <<prompterVars, restVars>>

\* onChange of the title or the content: setEditorState(prev => ...)
Type ==
  \E value \in Snapshots :
    /\ EditorAlive
    /\ value # pendingEditorState
    /\ pendingEditorState' = value
    /\ undone' = NotUndone
    /\ UNCHANGED <<historyVars, editorState, script, pendingScript, debounce,
                   autoSaveRef>>
    /\ UNCHANGED <<prompterVars, restVars>>

\* The 500 ms timeout: setHistoryState(editorState), both of the render
\* that set the timeout.
DebounceFire ==
  /\ EditorAlive
  /\ debounce # "none"
  /\ debounce' = "none"
  /\ IF SameAsCurrent(debounce, history, currentIndex)
       THEN /\ UNCHANGED <<pendingHistory, pendingIndex>>
            /\ undone' = IF undone.on THEN [undone EXCEPT !.committed = TRUE]
                         ELSE undone
       ELSE LET newHistory == Pushed(history, currentIndex, debounce)
            IN /\ Len(newHistory) <= MaxHistory
               /\ pendingHistory' = newHistory
               /\ pendingIndex' = Len(newHistory) - 1
               /\ undone' = NotUndone
  /\ UNCHANGED <<history, currentIndex, editorState, pendingEditorState,
                 script, pendingScript, autoSaveRef>>
  /\ UNCHANGED <<prompterVars, restVars>>

\* handleSave, on blur of the title or the content:
\* onSave({...script, ...editorState}); App makes it the active script.
HandleSave ==
  /\ EditorAlive
  /\ pendingScript' = editorState
  /\ undone' = IF editorState # pendingScript THEN NotUndone ELSE undone
  /\ UNCHANGED <<historyVars, editorState, pendingEditorState, script,
                 debounce, autoSaveRef>>
  /\ UNCHANGED <<prompterVars, restVars>>

\* currentEditorState.title !== currentScript.title ||
\* currentEditorState.content !== currentScript.content
UnsavedChanges(ref) == ref.editorState # ref.script

\* save(), every 30 s: currentOnSave({...currentScript, ...currentEditorState})
\* when the editor differs from the script, both read from autoSaveRef.
AutoSaveFire ==
  /\ EditorAlive
  /\ UnsavedChanges(autoSaveRef)
  /\ pendingScript' = autoSaveRef.editorState
  /\ undone' = IF autoSaveRef.editorState # pendingScript THEN NotUndone
               ELSE undone
  /\ UNCHANGED <<historyVars, editorState, pendingEditorState, script,
                 debounce, autoSaveRef>>
  /\ UNCHANGED <<prompterVars, restVars>>

----------------------------------------------------------------------------
(* App: the views and the active script *)

\* The ids `script-${Date.now()}` can take.
ScriptIds == 1 .. MaxScripts

\* Everything but App's state.
besideAppVars == <<prompterVars, historyVars, editorVars, undone, recorderVars>>

\* handleSaveScript(updatedScript) as the editor holds it: its activeScript
\* is the one of the editor's last render, never null, so the script
\* with that id becomes the active script; the list keeps its ids.
SavedFromEditor(active, id) == id

\* The cleanup of the editor's auto-save effect: clearInterval, then save(),
\* which calls onSave when the editor differs from its script.
AfterEditorUnmount(active, id, dirty) ==
  IF dirty THEN SavedFromEditor(active, id) ELSE active

HandleCreateNewScript ==
  \E id \in ScriptIds \ scripts :
    /\ currentView = "list"
    /\ scripts' = scripts \cup {id}
    /\ activeScript' = id
    /\ currentView' = "edit"
    /\ unsaved' = FALSE
    /\ UNCHANGED besideAppVars

HandleSelectScript ==
  \E id \in scripts :
    /\ currentView = "list"
    /\ activeScript' = id
    /\ currentView' = "edit"
    /\ unsaved' = FALSE
    /\ UNCHANGED <<scripts, besideAppVars>>

\* The user confirms the deletion.
HandleDeleteScript ==
  \E id \in scripts :
    /\ currentView = "list"
    /\ scripts' = scripts \ {id}
    /\ UNCHANGED <<currentView, activeScript, unsaved, besideAppVars>>

\* setEditorState without a save: typing, or the import of a file.
EditorEdit ==
  /\ currentView = "edit"
  /\ ~unsaved
  /\ unsaved' = TRUE
  /\ UNCHANGED <<currentView, activeScript, scripts, besideAppVars>>

\* The editor's handleSave or auto-save while it is shown.
EditorSave ==
  /\ currentView = "edit"
  /\ unsaved
  /\ activeScript' = SavedFromEditor(activeScript, activeScript)
  /\ unsaved' = FALSE
  /\ UNCHANGED <<currentView, scripts, besideAppVars>>

\* handleStartPrompting and handleStartRecording: handleSaveScript(script),
\* setActiveScript(script), setCurrentView; the editor is removed.
HandleStartSession ==
  \E view \in {"prompt", "record"} :
    /\ currentView = "edit"
    /\ currentView' = view
    /\ activeScript' = AfterEditorUnmount(activeScript, activeScript, unsaved)
    /\ unsaved' = FALSE
    /\ UNCHANGED <<scripts, besideAppVars>>

HandleCloseSession ==
  /\ currentView \in {"prompt", "record"}
  /\ currentView' = IF activeScript # NoScript THEN "edit" ELSE "list"
  /\ unsaved' = FALSE
  /\ UNCHANGED <<activeScript, scripts, besideAppVars>>

\* setActiveScript(null); setCurrentView('list'); the editor is removed.
HandleBackToList ==
  /\ currentView = "edit"
  /\ currentView' = "list"
  /\ activeScript' = AfterEditorUnmount(NoScript, activeScript, unsaved)
  /\ unsaved' = FALSE
  /\ UNCHANGED <<scripts, besideAppVars>>

----------------------------------------------------------------------------
(* Recorder: the camera stream *)

\* selectedVideoDeviceId === undefined, videoStream === null
NoDevice == 0
NoStream == 0

\* The cameras enumerateDevices reports.
VideoDevices == {1, 2}

\* Everything but the Recorder's state.
besideRecorderVars == <<prompterVars, historyVars, editorVars, undone, appVars>>

\* stream.getTracks().forEach(track => track.stop()); nothing for null
StopTracks(ss, stream) ==
  IF stream = NoStream THEN ss
  ELSE [ss EXCEPT ![stream] = [@ EXCEPT !.live = FALSE]]

\* stream.getAudioTracks().forEach(track => (track.enabled = enabled))
EnableAudio(ss, stream, enabled) ==
  [ss EXCEPT ![stream] = [@ EXCEPT !.audio = enabled]]

\* The body of the camera effect in a render with the stream current and
\* the mute state muted: the old stream is stopped and startCamera asks for
\* a new one; the cleanup the effect returns holds current.
CameraEffect(current, muted) ==
  /\ streams' = StopTracks(StopTracks(streams, cleanupStream), current)
  /\ requests' = Append(requests, [muted |-> muted])
  /\ cleanupStream' = current

\* getDevices: the permission is given, the cameras are listed and the
\* first one is selected; the camera effect runs for it.
DevicesEnumerated ==
  /\ recorderMounted
  /\ selectedVideoDeviceId = NoDevice
  /\ selectedVideoDeviceId' = 1
  /\ CameraEffect(videoStream, isMuted)
  /\ UNCHANGED <<recorderMounted, videoStream, isMuted>>
  /\ UNCHANGED besideRecorderVars

\* handleSwitchCamera: the next camera is selected and the camera effect
\* runs again, after the cleanup of its previous run.
HandleSwitchCamera ==
  /\ recorderMounted
  /\ selectedVideoDeviceId # NoDevice
  /\ Cardinality(VideoDevices) >= 2
  /\ Len(streams) + Len(requests) < MaxStreams
  /\ selectedVideoDeviceId' = (selectedVideoDeviceId % Cardinality(VideoDevices)) + 1
  /\ CameraEffect(videoStream, isMuted)
  /\ UNCHANGED <<recorderMounted, videoStream, isMuted>>
  /\ UNCHANGED besideRecorderVars

\* The rest of startCamera once getUserMedia has resolved: the stream
\* becomes videoStream if the Recorder is still mounted, and its audio
\* tracks are enabled as the isMuted of the effect's render says.
StreamStarted ==
  \E k \in 1 .. Len(requests) :
    LET stream == Len(streams) + 1
        started == Append(streams, [live |-> TRUE, audio |-> TRUE])
    IN /\ requests' = SubSeq(requests, 1, k - 1)
                        \o SubSeq(requests, k + 1, Len(requests))
       /\ streams' = EnableAudio(started, stream, ~requests[k].muted)
       /\ videoStream' = IF recorderMounted THEN stream ELSE videoStream
       /\ UNCHANGED <<recorderMounted, selectedVideoDeviceId, isMuted,
                      cleanupStream>>
       /\ UNCHANGED besideRecorderVars

HandleToggleMute ==
  /\ recorderMounted
  /\ videoStream # NoStream
  /\ streams' = EnableAudio(streams, videoStream, isMuted)
  /\ isMuted' = ~isMuted
  /\ UNCHANGED <<recorderMounted, selectedVideoDeviceId, videoStream,
                 requests, cleanupStream>>
  /\ UNCHANGED besideRecorderVars

\* The session is closed: the cleanup of the last camera effect runs.
RecorderUnmount ==
  /\ recorderMounted
  /\ recorderMounted' = FALSE
  /\ streams' = StopTracks(streams, cleanupStream)
  /\ UNCHANGED <<selectedVideoDeviceId, videoStream, isMuted, requests,
                 cleanupStream>>
  /\ UNCHANGED besideRecorderVars

----------------------------------------------------------------------------
(* Initial state: the prompter has just mounted. *)

\* The prompter as it mounts with one of the settings in stored.
InitWith(stored) ==
  /\ settings \in stored
  \* With a guide field undefined the Controls panel throws while rendering
  \* (value.toFixed) and the observer's rootMargin is "NaN%": nothing mounts.
  /\ mounted = (settings.guidePosition # Undefined)
  /\ detached = FALSE
  /\ pendingSettings = settings
  /\ settingsRef = settings
  /\ scrollSpeedRef = settings.scrollSpeed
  /\ isScrolling = FALSE
  /\ pendingIsScrolling = FALSE
  /\ isScrollingRef = FALSE
  /\ frames = NoFrames
  /\ lastTimestampRef = 0
  /\ scrollPositionRef = 0
  /\ scrollTop = 0
  /\ activeLineIndices = {}
  /\ pendingActive = {}
  /\ activeLineIndicesRef = {}
  /\ lines = Layout.lines
  /\ pendingLines = Layout.lines
  /\ observed = [i \in 0 .. (Layout.lines - 1) |-> "none"]
  /\ elapsedTime = 0
  /\ intervals = 0
  /\ isEditing = FALSE
  /\ pendingIsEditing = FALSE
  /\ isEditingRef = FALSE
  /\ isDraggingGuide = FALSE
  /\ pendingIsDraggingGuide = FALSE
  /\ history = <<InitialSnapshot>>
  /\ currentIndex = 0
  /\ pendingHistory = <<InitialSnapshot>>
  /\ pendingIndex = 0
  /\ editorState = InitialSnapshot
  /\ pendingEditorState = InitialSnapshot
  /\ script = InitialSnapshot
  /\ pendingScript = InitialSnapshot
  /\ debounce = InitialSnapshot
  /\ autoSaveRef = [script |-> InitialSnapshot, editorState |-> InitialSnapshot]
  /\ undone = NotUndone
  /\ currentView = "list"
  /\ activeScript = NoScript
  /\ scripts = {}
  /\ unsaved = FALSE
  /\ recorderMounted = TRUE
  /\ selectedVideoDeviceId = NoDevice
  /\ videoStream = NoStream
  /\ isMuted = FALSE
  /\ streams = <<>>
  /\ requests = <<>>
  /\ cleanupStream = NoStream
  /\ inputsUsed = 0
  /\ cmd = "other"
  /\ run = NoRun

Init == InitWith(StoredSettings \cup {DEFAULT_SETTINGS})

----------------------------------------------------------------------------
(* scroll(timestamp): one animation frame *)

\* Variant: the routine that does not test for its container.
EarlyReturn_Never(container) == FALSE

\* if (!scrollContainerRef.current) return;
EarlyReturn(container) == ~container

\* Variant: every frame takes the end branch.
AtEnd_Always(top) == TRUE

\* The end test: not "scrollTop < scrollHeight - clientHeight - 1"
AtEnd(top) == ~(top < MaxScroll - EndBuffer)

Tick ==
  \E f \in Scheduled(frames), dt \in DeltaTimes :
    LET timestamp == IF lastTimestampRef = 0 THEN FirstStamp
                     ELSE lastTimestampRef + dt
        fired == FireFrame(frames, f)
        last == TimingReference(lastTimestampRef, timestamp)
        deltaTime == timestamp - last
        active == ActiveLines(activeLineIndicesRef)
        position == scrollPositionRef
                      + ScrollAmount(scrollSpeedRef, deltaTime)
                      + Correction(active, scrollTop, settingsRef, deltaTime)
        top == ClampScroll(position)
    IN /\ timestamp <= MaxTime
       /\ IF EarlyReturn(mounted)
            THEN /\ frames' = fired
                 /\ UNCHANGED <<scrollVars, pendingIsScrolling, run>>
            ELSE /\ lastTimestampRef' = timestamp
                 /\ scrollPositionRef' = position
                 /\ run' = RunAfterTick(timestamp, active)
                 /\ IF ~AtEnd(top)
                      THEN /\ frames' = RequestFrame(fired)
                           /\ scrollTop' = top
                           /\ UNCHANGED pendingIsScrolling
                      ELSE /\ frames' = fired
                           /\ pendingIsScrolling' = FALSE
                           /\ scrollTop' = MaxScroll
       /\ UNCHANGED <<mounted, settingsVars, isScrolling, isScrollingRef,
                      activeVars, elapsedTime, editVars, contentVars, dragVars, inputsUsed, cmd>>
       /\ UNCHANGED <<historyVars, detached, intervals, editorVars, undone, restVars>>

----------------------------------------------------------------------------
(* One render and the passive effects that follow it *)

\* Variant: the effect without its cleanup.
ScrollEffect_NoCleanup(fr, scrolling) ==
  IF scrolling THEN RequestFrame(fr) ELSE fr

\* useEffect [isScrolling, scroll]: the cleanup of the previous run, then
\* the body with the new isScrolling.
ScrollEffect(fr, scrolling) ==
  IF scrolling THEN RequestFrame(CancelFrame(fr))
  ELSE CancelFrame(CancelFrame(fr))

\* Variant: the cleanup that clears nothing.
TimerCleanup_Nothing(n, was) == n

\* The cleanup of the timer effect that ran with isScrolling = was:
\* if (timerId) clearInterval(timerId)
TimerCleanup(n, was) == IF was THEN n - 1 ELSE n

\* useEffect [isScrolling] of the elapsed timer: the cleanup of the previous
\* run, then if (isScrolling) timerId = setInterval(..., 1000)
TimerEffect(n, was, scrolling) ==
  IF scrolling THEN TimerCleanup(n, was) + 1 ELSE TimerCleanup(n, was)

\* Variant: the effect that leaves the timing reference alone.
TimingAfterEffect_Kept(last, scrolling) == last

\* lastTimestampRef after the body of useEffect [isScrolling, scroll]
TimingAfterEffect(last, scrolling) == IF scrolling THEN 0 ELSE last

Commit ==
  /\ mounted
  /\ \/ pendingSettings # settings
     \/ pendingIsScrolling # isScrolling
     \/ pendingActive # activeLineIndices
     \/ pendingIsEditing # isEditing
     \/ pendingLines # lines
     \/ pendingIsDraggingGuide # isDraggingGuide
  /\ settings' = pendingSettings
  /\ lines' = pendingLines
  \* useEffect [isDraggingGuide, onSettingsChange]: the drag listeners
  /\ isDraggingGuide' = pendingIsDraggingGuide
  \* the browser keeps scrollTop within the new scrollHeight
  /\ scrollTop' = Min(scrollTop, MaxScrollOf(pendingLines))
  /\ isScrolling' = pendingIsScrolling
  /\ activeLineIndices' = pendingActive
  /\ isEditing' = pendingIsEditing
  \* useEffect [settings]
  /\ settingsRef' = IF pendingSettings # settings THEN pendingSettings
                    ELSE settingsRef
  /\ scrollSpeedRef' = IF pendingSettings # settings
                         THEN pendingSettings.scrollSpeed
                       ELSE scrollSpeedRef
  \* useEffect [isScrolling], [isEditing], [activeLineIndices]
  /\ isScrollingRef' = pendingIsScrolling
  /\ isEditingRef' = pendingIsEditing
  /\ activeLineIndicesRef' = pendingActive
  \* useEffect [isScrolling, scroll]
  /\ IF pendingIsScrolling # isScrolling
       THEN /\ frames' = ScrollEffect(frames, pendingIsScrolling)
            /\ lastTimestampRef' =
                 TimingAfterEffect(lastTimestampRef, pendingIsScrolling)
            /\ run' = IF pendingIsScrolling
                        THEN [NoRun EXCEPT !.st = "armed",
                                           !.resumed = (lastTimestampRef # 0)]
                      ELSE run
       ELSE UNCHANGED <<frames, lastTimestampRef, run>>
  \* useEffect [isScrolling]: the elapsed timer
  /\ intervals' = IF pendingIsScrolling # isScrolling
                    THEN TimerEffect(intervals, isScrolling, pendingIsScrolling)
                  ELSE intervals
  \* useEffect [script.content, guidePosition, guideZoneSize]: a new observer
  /\ observed' = IF \/ pendingSettings.guidePosition # settings.guidePosition
                    \/ pendingSettings.guideZoneSize # settings.guideZoneSize
                    \/ pendingLines # lines
                   THEN [i \in 0 .. (pendingLines - 1) |-> "none"]
                 ELSE observed
  /\ UNCHANGED <<mounted, pendingSettings, pendingIsScrolling, scrollPositionRef,
                 pendingActive, elapsedTime, pendingIsEditing, pendingLines,
                 pendingIsDraggingGuide, inputsUsed, cmd>>
  /\ UNCHANGED <<historyVars, detached, editorVars, undone, restVars>>

----------------------------------------------------------------------------
(* Handlers *)

\* Variant: the press that directly follows a pause requests a pause again.
PlayPauseToggle_PauseStays(scrolling, editing) ==
  IF editing THEN scrolling
  ELSE IF cmd = "pause" THEN FALSE
  ELSE ~scrolling

\* setIsScrolling(prev => !prev), unless the editor is open
PlayPauseToggle(scrolling, editing) ==
  IF editing THEN scrolling ELSE ~scrolling

\* What the press of the play/pause control was: a pause, the press that
\* directly follows a pause, or another one.
PlayPauseCommand ==
  IF isEditingRef THEN "other"
  ELSE IF pendingIsScrolling THEN "pause"
  ELSE IF cmd = "pause" THEN "pauseAgain"
  ELSE "other"

HandlePlayPause ==
  /\ mounted
  /\ pendingIsScrolling' = PlayPauseToggle(pendingIsScrolling, isEditingRef)
  /\ cmd' = PlayPauseCommand
  /\ UNCHANGED <<mounted, settingsVars, isScrolling, isScrollingRef, frames,
                 scrollVars, activeVars, elapsedTime, editVars, contentVars, dragVars, inputsUsed, run>>
  /\ UNCHANGED <<historyVars, detached, intervals, editorVars, undone, restVars>>

HandleStop ==
  /\ mounted
  /\ pendingIsScrolling' = FALSE
  /\ scrollTop' = 0
  /\ scrollPositionRef' = 0
  /\ elapsedTime' = 0
  /\ run' = IF run.st = "armed" THEN run ELSE NoRun
  /\ cmd' = "stop"
  /\ UNCHANGED <<mounted, settingsVars, isScrolling, isScrollingRef, frames,
                 lastTimestampRef, activeVars, editVars, contentVars, dragVars, inputsUsed>>
  /\ UNCHANGED <<historyVars, detached, intervals, editorVars, undone, restVars>>

\* Variant: the speed without its upper clamp.
NewSpeed_NoUpperClamp(speed, delta) ==
  IF speed + delta * WheelSpeedStep < MinSpeed THEN MinSpeed
  ELSE speed + delta * WheelSpeedStep

\* Math.max(1, Math.min(100, speed + delta * 0.5))
NewSpeed(speed, delta) ==
  Max(MinSpeed, Min(MaxSpeed, speed + delta * WheelSpeedStep))

\* Variant: the engine keeps its speed until the settings are rendered.
LiveSpeed_AfterRender(current, newSpeed) == current

\* scrollSpeedRef.current = newSpeed
LiveSpeed(current, newSpeed) == newSpeed

\* Variant: the step lands outside the scrollable range.
PausedScroll_Unclamped(top, delta) == top + delta * PausedScrollStep

\* scrollTop after "scrollTop += delta * 20"
PausedScroll(top, delta) == ClampScroll(top + delta * PausedScrollStep)

\* Math.sign(e.deltaY) of a wheel event; -1 and 1 for the arrow keys
WheelDeltas == {-1, 0, 1}

HandleScrollChange ==
  \E delta \in WheelDeltas :
    \* the keydown listener is attached
    /\ mounted \/ detached
    /\ IF EarlyReturn(mounted)
         THEN /\ cmd' = "ignored"
              /\ UNCHANGED <<scrollSpeedRef, pendingSettings, inputsUsed,
                             scrollTop, scrollPositionRef, run>>
         ELSE IF isScrollingRef
         THEN /\ \/ inputsUsed < MaxInputs
                 \/ /\ inputsUsed < MaxInputs + MaxBurst - 1
                    /\ delta * (pendingSettings.scrollSpeed - settings.scrollSpeed) > 0
              /\ inputsUsed' = inputsUsed + 1
              /\ scrollSpeedRef' =
                   LiveSpeed(scrollSpeedRef, NewSpeed(settingsRef.scrollSpeed, delta))
              /\ pendingSettings' =
                   [pendingSettings EXCEPT
                      !.scrollSpeed = NewSpeed(settingsRef.scrollSpeed, delta)]
              /\ cmd' = "other"
              /\ UNCHANGED <<scrollTop, scrollPositionRef, run>>
         ELSE /\ scrollTop' = PausedScroll(scrollTop, delta)
              /\ scrollPositionRef' = PausedScroll(scrollTop, delta)
              /\ run' = NoRun
              /\ cmd' = "other"
              /\ UNCHANGED <<scrollSpeedRef, pendingSettings, inputsUsed>>
    /\ UNCHANGED <<mounted, settings, settingsRef, playVars, frames,
                   lastTimestampRef, activeVars, elapsedTime, editVars, contentVars, dragVars>>
    /\ UNCHANGED <<historyVars, detached, intervals, editorVars, undone, restVars>>

----------------------------------------------------------------------------
(* The script editor dialog *)

\* Line counts of the text the editor saves.
ContentSizes == 1 .. Layout.lines

HandleOpenEditor ==
  /\ mounted
  /\ pendingIsScrolling' = FALSE
  /\ pendingIsEditing' = TRUE
  /\ cmd' = IF pendingIsScrolling THEN "edit" ELSE "other"
  /\ UNCHANGED <<mounted, settingsVars, isScrolling, isScrollingRef, frames,
                 scrollVars, activeVars, elapsedTime, isEditing, isEditingRef,
                 contentVars, dragVars, inputsUsed, run>>
  /\ UNCHANGED <<historyVars, detached, intervals, editorVars, undone, restVars>>

\* Cancel, or a click on the backdrop: setIsEditing(false)
CancelEdit ==
  /\ mounted
  /\ isEditing
  /\ pendingIsEditing' = FALSE
  /\ cmd' = "other"
  /\ UNCHANGED <<mounted, settingsVars, playVars, frames, scrollVars,
                 activeVars, elapsedTime, isEditing, isEditingRef,
                 contentVars, dragVars, inputsUsed, run>>
  /\ UNCHANGED <<historyVars, detached, intervals, editorVars, undone, restVars>>

\* onSaveScript({...script, content: editText}); setIsEditing(false)
HandleSaveEdit ==
  \E n \in ContentSizes :
    /\ mounted
    /\ isEditing
    /\ pendingLines' = n
    /\ pendingIsEditing' = FALSE
    /\ cmd' = "other"
    /\ UNCHANGED <<mounted, settingsVars, playVars, frames, scrollVars,
                   activeVars, elapsedTime, isEditing, isEditingRef, lines,
                   dragVars, inputsUsed, run>>
    /\ UNCHANGED <<historyVars, detached, intervals, editorVars, undone, restVars>>

----------------------------------------------------------------------------
(* Zoom and line spacing commands *)

\* Settings stored by an earlier session that left the sliders one step
\* from an end of their ranges.
ZoomStoredSettings ==
  {[s EXCEPT !.fontSize = MaxFontSize - 1, !.lineSpacing = MaxLineSpacing - 1] :
     s \in {t \in StoredSettings : t.scrollSpeed = MinSpeed}}
  \cup
  {[s EXCEPT !.fontSize = MinFontSize + 1, !.lineSpacing = MinLineSpacing + 1] :
     s \in {t \in StoredSettings : t.scrollSpeed = MinSpeed}}

\* Math.max(12, Math.min(120, settings.fontSize + delta))
NewFontSize(current, delta) ==
  Max(MinFontSize, Min(MaxFontSize, current + delta))

\* Math.max(1, Math.min(3, Math.round(settings.lineSpacing * 10) / 10 + delta)),
\* in tenths: Math.round(x) is floor(x + 0.5).
NewLineSpacing(current, delta) ==
  LET currentSpacing == (2 * current + 1) \div 2
  IN Max(MinLineSpacing, Min(MaxLineSpacing, currentSpacing + delta))

\* Ctrl/Cmd with + or -.  settings is the prop of the render the keydown
\* listener was registered in.
HandleFontSizeChange ==
  \E delta \in {FontSizeStep, -FontSizeStep} :
    /\ mounted
    /\ inputsUsed < MaxZooms
    /\ inputsUsed' = inputsUsed + 1
    /\ pendingSettings' =
         [pendingSettings EXCEPT !.fontSize = NewFontSize(settings.fontSize, delta)]
    /\ cmd' = "other"
    /\ UNCHANGED <<mounted, settings, settingsRef, scrollSpeedRef, playVars,
                   frames, scrollVars, activeVars, elapsedTime, editVars,
                   contentVars, dragVars, run>>
    /\ UNCHANGED <<historyVars, detached, intervals, editorVars, undone, restVars>>

\* Alt with ArrowUp or ArrowDown
HandleLineSpacingChange ==
  \E delta \in {LineSpacingStep, -LineSpacingStep} :
    /\ mounted
    /\ inputsUsed < MaxZooms
    /\ inputsUsed' = inputsUsed + 1
    /\ pendingSettings' =
         [pendingSettings EXCEPT
            !.lineSpacing = NewLineSpacing(settings.lineSpacing, delta)]
    /\ cmd' = "other"
    /\ UNCHANGED <<mounted, settings, settingsRef, scrollSpeedRef, playVars,
                   frames, scrollVars, activeVars, elapsedTime, editVars,
                   contentVars, dragVars, run>>
    /\ UNCHANGED <<historyVars, detached, intervals, editorVars, undone, restVars>>

----------------------------------------------------------------------------
(* Dragging the guide marker *)

\* clientY - rect.top of the pointer events, in 1/20 px
PointerYs == {-40, 89}

\* Math.round(Math.max(10, Math.min(90, (newY / rect.height) * 100)))
GuideFromPointer(newY, height) ==
  LET clamped == Max(MinGuide * height, Min(MaxGuide * height, newY * 100))
  IN (2 * clamped + height) \div (2 * height)

HandleGuideMouseDown ==
  /\ mounted
  /\ inputsUsed < MaxInputs
  /\ inputsUsed' = inputsUsed + 1
  /\ pendingIsDraggingGuide' = TRUE
  /\ cmd' = "other"
  /\ UNCHANGED <<mounted, settingsVars, playVars, frames, scrollVars,
                 activeVars, elapsedTime, editVars, contentVars,
                 isDraggingGuide, run>>
  /\ UNCHANGED <<historyVars, detached, intervals, editorVars, undone, restVars>>

\* The mousemove listener the drag effect attached to window
HandleMouseMove ==
  \E newY \in PointerYs :
    /\ mounted
    /\ isDraggingGuide
    /\ pendingSettings' =
         [pendingSettings EXCEPT
            !.guidePosition = GuideFromPointer(newY, Layout.clientHeight)]
    /\ cmd' = "other"
    /\ UNCHANGED <<mounted, settings, settingsRef, scrollSpeedRef, playVars,
                   frames, scrollVars, activeVars, elapsedTime, editVars,
                   contentVars, dragVars, inputsUsed, run>>
    /\ UNCHANGED <<historyVars, detached, intervals, editorVars, undone, restVars>>

\* The mouseup listener the drag effect attached to window
HandleMouseUp ==
  /\ mounted
  /\ isDraggingGuide
  /\ pendingIsDraggingGuide' = FALSE
  /\ cmd' = "other"
  /\ UNCHANGED <<mounted, settingsVars, playVars, frames, scrollVars,
                 activeVars, elapsedTime, editVars, contentVars,
                 isDraggingGuide, inputsUsed, run>>
  /\ UNCHANGED <<historyVars, detached, intervals, editorVars, undone, restVars>>

----------------------------------------------------------------------------
(* Callbacks of the platform *)

\* The IntersectionObserver callback: one entry for every observed line
\* whose intersection with the band changed since its last entry.
ObserverCallback ==
  LET now == InBand(scrollTop, settings)
      changed == {i \in Lines :
                    \/ observed[i] = "none"
                    \/ (observed[i] = "in") # (i \in now)}
  IN /\ mounted
     /\ changed # {}
     /\ pendingActive' = (pendingActive \cup (changed \cap now)) \ (changed \ now)
     /\ observed' = [i \in Lines |-> IF i \in now THEN "in" ELSE "out"]
     /\ UNCHANGED <<mounted, settingsVars, playVars, frames, scrollVars,
                    activeLineIndices, activeLineIndicesRef, elapsedTime,
                    editVars, contentVars, dragVars, inputsUsed, cmd, run>>
     /\ UNCHANGED <<historyVars, detached, intervals, editorVars, undone, restVars>>

\* The one-second interval of the elapsed-time effect
TimerFire ==
  /\ mounted
  /\ intervals > 0
  /\ elapsedTime < MaxElapsed
  /\ elapsedTime' = elapsedTime + 1
  /\ UNCHANGED <<mounted, settingsVars, playVars, frames, scrollVars,
                 activeVars, editVars, contentVars, dragVars, inputsUsed, cmd, run>>
  /\ UNCHANGED <<historyVars, detached, intervals, editorVars, undone, restVars>>

\* handleResetTimer: e.stopPropagation(); setElapsedTime(0)
HandleResetTimer ==
  /\ mounted
  /\ elapsedTime' = 0
  /\ cmd' = "other"
  /\ UNCHANGED <<mounted, settingsVars, playVars, frames, scrollVars,
                 activeVars, editVars, contentVars, dragVars, inputsUsed, run>>
  /\ UNCHANGED <<historyVars, detached, intervals, editorVars, undone, restVars>>

\* The prompter unmounts: every effect's cleanup runs and React discards
\* the component's state.  What stays is what the browser and App hold:
\* the frames still scheduled and the settings.
Unmount ==
  /\ mounted
  /\ mounted' = FALSE
  /\ frames' = CancelFrame(frames)
  /\ settings' = pendingSettings
  /\ settingsRef' = pendingSettings
  /\ scrollSpeedRef' = pendingSettings.scrollSpeed
  /\ isScrolling' = FALSE
  /\ pendingIsScrolling' = FALSE
  /\ isScrollingRef' = FALSE
  /\ lastTimestampRef' = 0
  /\ scrollPositionRef' = 0
  /\ scrollTop' = 0
  /\ activeLineIndices' = {}
  /\ pendingActive' = {}
  /\ activeLineIndicesRef' = {}
  /\ observed' = [i \in 0 .. (pendingLines - 1) |-> "none"]
  /\ elapsedTime' = 0
  /\ isEditing' = FALSE
  /\ pendingIsEditing' = FALSE
  /\ isEditingRef' = FALSE
  /\ lines' = pendingLines
  /\ isDraggingGuide' = FALSE
  /\ pendingIsDraggingGuide' = FALSE
  /\ cmd' = "other"
  /\ run' = NoRun
  /\ intervals' = TimerCleanup(intervals, isScrolling)
  /\ UNCHANGED <<pendingSettings, pendingLines, inputsUsed>>
  /\ UNCHANGED <<historyVars, detached, editorVars, undone, restVars>>

\* The commit that removes the prompter: React detaches the DOM refs and
\* discards the component's state; the refs the callbacks close over, the
\* frame that is scheduled and the window listeners stay until the effect
\* cleanups run.
DetachRefs ==
  /\ mounted
  /\ mounted' = FALSE
  /\ detached' = TRUE
  /\ settings' = pendingSettings
  /\ isScrolling' = FALSE
  /\ pendingIsScrolling' = FALSE
  /\ scrollTop' = 0
  /\ activeLineIndices' = {}
  /\ pendingActive' = {}
  /\ observed' = [i \in 0 .. (pendingLines - 1) |-> "none"]
  /\ elapsedTime' = 0
  /\ isEditing' = FALSE
  /\ pendingIsEditing' = FALSE
  /\ lines' = pendingLines
  /\ isDraggingGuide' = FALSE
  /\ pendingIsDraggingGuide' = FALSE
  /\ UNCHANGED <<pendingSettings, settingsRef, scrollSpeedRef, isScrollingRef,
                 frames, lastTimestampRef, scrollPositionRef,
                 activeLineIndicesRef, isEditingRef, pendingLines, inputsUsed,
                 cmd, run, intervals>>
  /\ UNCHANGED <<historyVars, editorVars, undone, restVars>>

\* The effect cleanups of the removed prompter: the frame is cancelled, the
\* listeners are removed and nothing holds the refs any longer.
EffectCleanups ==
  /\ detached
  /\ detached' = FALSE
  /\ frames' = CancelFrame(frames)
  /\ settingsRef' = pendingSettings
  /\ scrollSpeedRef' = pendingSettings.scrollSpeed
  /\ isScrollingRef' = FALSE
  /\ lastTimestampRef' = 0
  /\ scrollPositionRef' = 0
  /\ activeLineIndicesRef' = {}
  /\ isEditingRef' = FALSE
  /\ intervals' = TimerCleanup(intervals, intervals > 0)
  /\ cmd' = "other"
  /\ run' = NoRun
  /\ UNCHANGED <<mounted, settings, pendingSettings, isScrolling,
                 pendingIsScrolling, scrollTop, activeLineIndices,
                 pendingActive, observed, elapsedTime, isEditing,
                 pendingIsEditing, contentVars, dragVars, inputsUsed>>
  /\ UNCHANGED <<historyVars, editorVars, undone, restVars>>

\* The engine reads timestamps only through differences and the sentinel 0:
\* the time origin is moved back so that timestamps stay below MaxTime.
ShiftTimeOrigin ==
  /\ lastTimestampRef > FirstStamp
  /\ lastTimestampRef' = FirstStamp
  /\ run' = IF run.st = "on" THEN NoRun ELSE run
  /\ UNCHANGED <<mounted, settingsVars, playVars, frames, scrollPositionRef,
                 scrollTop, activeVars, elapsedTime, editVars, contentVars, dragVars, inputsUsed,
                 cmd>>
  /\ UNCHANGED <<historyVars, detached, intervals, editorVars, undone, restVars>>

Next ==
  \/ Tick
  \/ Commit
  \/ HandlePlayPause
  \/ HandleStop
  \/ HandleScrollChange
  \/ ObserverCallback
  \/ TimerFire
  \/ Unmount
  \/ ShiftTimeOrigin

Spec == Init /\ [][Next]_vars

\* The prompter opened with the slowest stored speed.
SlowInit == Init /\ settings.scrollSpeed = MinSpeed

\* The prompter with its editor dialog.
EditorNext ==
  \/ Tick
  \/ Commit
  \/ HandlePlayPause
  \/ HandleStop
  \/ ObserverCallback
  \/ TimerFire
  \/ ShiftTimeOrigin
  \/ HandleOpenEditor
  \/ CancelEdit
  \/ HandleSaveEdit

EditorSpec == SlowInit /\ [][EditorNext]_vars

\* The prompter with its guide marker.
GuideNext ==
  \/ Tick
  \/ Commit
  \/ HandlePlayPause
  \/ ObserverCallback
  \/ ShiftTimeOrigin
  \/ HandleGuideMouseDown
  \/ HandleMouseMove
  \/ HandleMouseUp

GuideSpec == SlowInit /\ [][GuideNext]_vars

\* The paused prompter with its guide marker and its script editor, the two
\* ways the observer of the band is replaced, scrolled by hand.
BandNext ==
  \/ Commit
  \/ ObserverCallback
  \/ HandleScrollChange
  \/ HandleOpenEditor
  \/ HandleSaveEdit
  \/ HandleGuideMouseDown
  \/ HandleMouseMove
  \/ HandleMouseUp

BandSpec == SlowInit /\ [][BandNext]_vars

\* The prompter with its zoom and spacing commands.
ZoomNext ==
  \/ Tick
  \/ Commit
  \/ HandlePlayPause
  \/ HandleFontSizeChange
  \/ HandleLineSpacingChange

ZoomInit == InitWith(ZoomStoredSettings)

ZoomSpec == ZoomInit /\ [][ZoomNext]_vars

\* The prompter that is removed while it runs.
UnmountNext ==
  \/ Tick
  \/ Commit
  \/ HandlePlayPause
  \/ HandleScrollChange
  \/ ObserverCallback
  \/ ShiftTimeOrigin
  \/ DetachRefs
  \/ EffectCleanups

UnmountSpec == SlowInit /\ [][UnmountNext]_vars

\* The history buffer of the script editor.
HistoryNext ==
  \/ SetState
  \/ ResetState
  \/ Undo
  \/ Redo
  \/ HistoryCommit

HistorySpec == Init /\ [][HistoryNext]_vars

\* App: the list of scripts, the editor, the prompter and the recorder as
\* the views the user moves between.
AppNext ==
  \/ HandleCreateNewScript
  \/ HandleSelectScript
  \/ HandleDeleteScript
  \/ EditorEdit
  \/ EditorSave
  \/ HandleStartSession
  \/ HandleCloseSession
  \/ HandleBackToList

AppSpec == Init /\ [][AppNext]_vars

\* The Recorder: the cameras, the stream requests, the mute button and the
\* end of the session.
RecorderNext ==
  \/ DevicesEnumerated
  \/ HandleSwitchCamera
  \/ StreamStarted
  \/ HandleToggleMute
  \/ RecorderUnmount

RecorderSpec == Init /\ [][RecorderNext]_vars

\* The script editor with its undo buffer: typing, the debounced commit,
\* undo and redo, the save on blur, the periodic auto-save and the renders.
ScriptEditorNext ==
  \/ Type
  \/ DebounceFire
  \/ Undo
  \/ Redo
  \/ HandleSave
  \/ AutoSaveFire
  \/ EditorCommit

ScriptEditorSpec == Init /\ [][ScriptEditorNext]_vars

\* The browser runs the frames it has scheduled, React renders the updates
\* it has queued, the observer delivers its entries.
Fairness ==
  /\ WF_vars(Tick)
  /\ WF_vars(Commit)
  /\ WF_vars(ObserverCallback)
  /\ WF_vars(ShiftTimeOrigin)

LiveSpec == Init /\ [][Next]_vars /\ Fairness

\* The prompter with its elapsed timer: play, pause, stop, the reset button,
\* the frames, the one-second interval and the removal of the prompter.
TimerNext ==
  \/ Tick
  \/ Commit
  \/ HandlePlayPause
  \/ HandleStop
  \/ HandleResetTimer
  \/ TimerFire
  \/ Unmount
  \/ ShiftTimeOrigin

TimerSpec == SlowInit /\ [][TimerNext]_vars

\* A command of the user.
UserInput ==
  HandlePlayPause \/ HandleStop \/ HandleScrollChange \/ Unmount

----------------------------------------------------------------------------
(* Properties *)

\* The frame that took the end branch of scroll.
TerminalTick == Tick /\ mounted /\ scrollTop' >= MaxScroll - EndBuffer

\* C1: the tick that finds the scroll position within 1px of
\* scrollHeight - clientHeight pauses the engine, schedules no further frame
\* and leaves the accumulator scrollPositionRef at exactly
\* scrollHeight - clientHeight.
C1_TerminalSnap ==
  [][TerminalTick =>
       /\ ~pendingIsScrolling'
       /\ Scheduled(frames') = {}
       /\ scrollPositionRef' = MaxScroll]_vars

\* C2: in every reachable state the accumulator scrollPositionRef lies in
\* [0, scrollHeight - clientHeight].
C2_OffsetInRange == scrollPositionRef \in 0 .. MaxScroll

\* C3: once the cleanup of the isScrolling effect has run for a pause, a
\* stop or an unmount, no frame is scheduled and no frame runs.
C3_Cancelled ==
  /\ []((~isScrolling \/ ~mounted) => Scheduled(frames) = {})
  /\ [][(~isScrolling \/ ~mounted) => ~Tick]_vars

\* A pause has taken effect and its cleanup cancelled a frame that a tick
\* had scheduled.
C3_Witness ==
  /\ cmd = "pause"
  /\ ~isScrolling
  /\ frames.ref = "dead"
  /\ lastTimestampRef > FirstStamp

\* C4: every render that goes from Paused to Advancing resets the timing
\* reference, and the first frame after it adds nothing to the accumulator.
C4_ResumeTiming ==
  [][/\ (~isScrolling /\ isScrolling' => lastTimestampRef' = 0)
     /\ (Tick /\ mounted /\ run.st = "armed" =>
           scrollPositionRef' = scrollPositionRef)]_vars

\* The first frame after a resume has run, the reference still held the
\* timestamp of a frame before the pause when play took effect.
C4_Witness ==
  /\ run.st = "on"
  /\ run.resumed
  /\ lastTimestampRef = run.t0
  /\ scrollPositionRef > 0

\* C5: while the speed is fixed and no frame sees an active line, the
\* accumulator after the frame at tn is the accumulator at play plus
\* speed * (tn - t0) / 1000.
C5_TimeInvariance ==
  run.st = "on" =>
    (scrollPositionRef - run.off) * 500 = run.speed * (lastTimestampRef - run.t0)

\* One second of such a session has passed.
C5_Witness ==
  /\ run.st = "on"
  /\ lastTimestampRef = run.t0 + 1000
  /\ scrollPositionRef = run.off + 2 * run.speed

\* C6: in every reachable state scrollSpeed is in [1,100], fontSize in
\* [12,120], lineSpacing in [1,3] and guidePosition in [10,90].
C6_SettingsInRange ==
  /\ settings.scrollSpeed \in MinSpeed .. MaxSpeed
  /\ settings.fontSize \in MinFontSize .. MaxFontSize
  /\ settings.lineSpacing \in MinLineSpacing .. MaxLineSpacing
  /\ settings.guidePosition \in MinGuide .. MaxGuide

\* The speed a wheel or arrow input asks for, clamped to [1, 100].
ClampedSpeed(delta) ==
  LET v == settingsRef.scrollSpeed + delta * WheelSpeedStep
  IN IF v < MinSpeed THEN MinSpeed ELSE IF v > MaxSpeed THEN MaxSpeed ELSE v

\* C7: a wheel or arrow input while Advancing sets the speed to
\* clamp(speed + 0.5 * delta, 1, 100); the speed of the settings and the
\* speed the engine uses are always in [1, 100].
C7_SpeedClamped ==
  /\ [](/\ scrollSpeedRef \in MinSpeed .. MaxSpeed
        /\ settings.scrollSpeed \in MinSpeed .. MaxSpeed
        /\ pendingSettings.scrollSpeed \in MinSpeed .. MaxSpeed)
  /\ [][HandleScrollChange /\ isScrollingRef =>
          \E delta \in WheelDeltas :
            /\ scrollSpeedRef' = ClampedSpeed(delta)
            /\ pendingSettings'.scrollSpeed = ClampedSpeed(delta)]_vars

\* An input at the largest speed was taken and rendered.
C7_Witness ==
  /\ inputsUsed > 0
  /\ isScrolling
  /\ scrollSpeedRef = MaxSpeed
  /\ settings.scrollSpeed = MaxSpeed
  /\ settingsRef.scrollSpeed = MaxSpeed

\* The engine is Advancing and a frame is scheduled.
Advancing ==
  mounted /\ isScrolling /\ pendingIsScrolling /\ Scheduled(frames) # {}

\* C8: when the commands of the user cease, an Advancing engine whose
\* frames keep running eventually reaches the end of the content and pauses.
C8_ReachesEnd ==
  \/ []<><<UserInput>>_vars
  \/ (Advancing ~> ~pendingIsScrolling)

\* C9: once a stop has taken effect the engine is Paused with accumulator,
\* scrollTop and elapsed time all 0.
C9_StopSettles ==
  (cmd = "stop" /\ mounted /\ ~isScrolling /\ ~pendingIsScrolling) =>
    /\ scrollPositionRef = 0
    /\ scrollTop = 0
    /\ elapsedTime = 0

\* C10: the press of the play/pause control that directly follows a pause
\* leaves isScrolling, the accumulator, the elapsed time and the scheduled
\* frame as the pause left them.
C10_PauseIdempotent ==
  [][cmd = "pause" /\ HandlePlayPause =>
       UNCHANGED <<pendingIsScrolling, scrollPositionRef, elapsedTime, frames>>]_vars

\* C10, amended: the press of the play/pause control that directly follows
\* a pause asks for Advancing again; the press itself leaves the
\* accumulator, scrollTop, the elapsed time and the scheduled frame alone.
C10_PauseThenPlay ==
  [][cmd = "pause" /\ HandlePlayPause =>
       /\ pendingIsScrolling'
       /\ UNCHANGED <<scrollPositionRef, scrollTop, elapsedTime, frames>>]_vars

\* The control was pressed twice in a row while Advancing.
C10_Witness ==
  /\ cmd = "pauseAgain"
  /\ pendingIsScrolling
  /\ isScrolling

\* deltaTime of the frame that just ran.
TickElapsed ==
  lastTimestampRef' - TimingReference(lastTimestampRef, lastTimestampRef')

\* A frame that found the scroll position within 1px of the end.
EndOfContentTick ==
  Tick /\ mounted /\ ClampScroll(scrollPositionRef') >= MaxScroll - EndBuffer

\* C11: the engine is asked to go from Advancing to Paused only by the
\* play/pause command, the stop command or a frame that reached the end of
\* the content.
C11_PauseCauses ==
  [][pendingIsScrolling /\ ~pendingIsScrolling' =>
       HandlePlayPause \/ HandleStop \/ EndOfContentTick]_vars

\* C11, amended: the engine is asked to go from Advancing to Paused only by
\* the play/pause command, the stop command, a frame that reached the end
\* of the content, or the opening of the script editor; the rendered
\* isScrolling follows only in a render.
C11_PauseCausesWithEditor ==
  [][/\ (pendingIsScrolling /\ ~pendingIsScrolling' =>
          HandlePlayPause \/ HandleStop \/ EndOfContentTick \/ HandleOpenEditor)
     /\ (isScrolling /\ ~isScrolling' => Commit)]_vars

\* The editor was opened while Advancing, before the end of the content,
\* and the render that follows has not happened yet.
C11_Witness ==
  /\ cmd = "edit"
  /\ isScrolling
  /\ ~pendingIsScrolling
  /\ pendingIsEditing
  /\ scrollTop > 0
  /\ scrollTop < MaxScroll - EndBuffer

\* C12: a frame whose active set is empty, or holds no index of a rendered
\* line, changes the accumulator by exactly speed * deltaTime / 1000.
C12_NoLinesNoCorrection ==
  [][Tick /\ mounted /\ activeLineIndicesRef \cap (0 .. (lines - 1)) = {} =>
       scrollPositionRef' =
         scrollPositionRef + (scrollSpeedRef * TickElapsed) \div 500]_vars

\* Frames have advanced the accumulator while the only active index was
\* the one of a line the edited script no longer has.
C12_Witness ==
  /\ lines = 1
  /\ activeLineIndicesRef = {1}
  /\ run.st = "on"
  /\ lastTimestampRef > run.t0
  /\ scrollPositionRef > run.off

\* C13: the correction gain is 0.004 * autoCenterSensitivity / 100 over the
\* whole range of the setting, so at sensitivity 0 a frame changes the
\* accumulator by speed * deltaTime / 1000 only, active lines or not.
C13_GainProportional ==
  [][Tick /\ mounted =>
       scrollPositionRef' =
         scrollPositionRef + (scrollSpeedRef * TickElapsed) \div 500
           + (IF ActiveLines(activeLineIndicesRef) = {} THEN 0
              ELSE (CentreError(ActiveLines(activeLineIndicesRef), scrollTop,
                                settingsRef)
                      * settingsRef.autoCenterSensitivity * TickElapsed)
                     \div 25000)]_vars

\* C14: a wheel or arrow input while Advancing leaves the accumulator and
\* scrollTop alone, and every frame after it advances with the speed the
\* input asked for, rendered or not.
C14_SpeedOverride ==
  [][/\ (HandleScrollChange /\ isScrollingRef =>
          UNCHANGED <<scrollPositionRef, scrollTop>>)
     /\ (Tick /\ mounted =>
          scrollPositionRef' =
            scrollPositionRef
              + (pendingSettings.scrollSpeed * TickElapsed) \div 500
              + Correction(ActiveLines(activeLineIndicesRef), scrollTop,
                           settingsRef, TickElapsed))]_vars

\* Half a second after an input raised the speed, before any render, the
\* accumulator has advanced by the new speed.
C14_Witness ==
  /\ inputsUsed = 1
  /\ isScrolling
  /\ settings.scrollSpeed = MinSpeed
  /\ pendingSettings.scrollSpeed = MinSpeed + WheelSpeedStep
  /\ lastTimestampRef = FirstStamp + 500
  /\ scrollPositionRef = MinSpeed + WheelSpeedStep

\* The scroll position a paused input with delta d asks for, limited to the
\* scrollable range.
PausedTarget(d) ==
  LET v == scrollTop + d * PausedScrollStep
  IN IF v < 0 THEN 0 ELSE IF v > MaxScroll THEN MaxScroll ELSE v

RECURSIVE CentresUpTo(_, _, _)
CentresUpTo(n, S, top) ==
  IF n = 0 THEN 0
  ELSE (IF n - 1 \in S
          THEN Layout.spacer + (n - 1) * Layout.lineHeight - top
                 + Layout.lineHeight \div 2
          ELSE 0)
       + CentresUpTo(n - 1, S, top)

MeanCentre(S, top) == CentresUpTo(lines, S, top) \div Cardinality(S)

\* C16: with a non-empty active set the error of a frame is the equal-weight
\* mean of the active lines' centres minus containerHeight * guidePosition
\* / 100, and the frame's correction is that error times a positive gain,
\* so it has the sign of the error.
C16_CentringError ==
  [][Tick /\ mounted /\ ActiveLines(activeLineIndicesRef) # {} =>
       LET error == MeanCentre(ActiveLines(activeLineIndicesRef), scrollTop)
                      - (Layout.clientHeight * settingsRef.guidePosition) \div 100
           correction == scrollPositionRef' - scrollPositionRef
                           - (scrollSpeedRef * TickElapsed) \div 500
       IN /\ \E gain \in 1 .. 100 :
               correction = (error * gain * TickElapsed) \div 25000
          /\ error > 0 => correction >= 0
          /\ error < 0 => correction <= 0
          /\ error = 0 => correction = 0]_vars

\* Frames that found both lines active have carried the first of them out
\* of the band, past the position at which the set was observed.
C16_Witness ==
  /\ isScrolling
  /\ lines = 2
  /\ activeLineIndicesRef = {0, 1}
  /\ ~Intersects(0, scrollTop, settingsRef.guidePosition, settingsRef.guideZoneSize)
  /\ Intersects(1, scrollTop, settingsRef.guidePosition, settingsRef.guideZoneSize)
  /\ scrollPositionRef = scrollTop
  /\ MeanCentre({0, 1}, scrollTop) < (Layout.clientHeight * settingsRef.guidePosition) \div 100

\* The observer has no entry left to deliver.
Delivered == mounted /\ ~ENABLED ObserverCallback

\* Line i spans [top, top + height] of the container and the band spans
\* [guidePosition - guideZoneSize / 2, guidePosition + guideZoneSize / 2]
\* percent of its height: the two spans meet.
SpanMeetsBand(i) ==
  LET lineTop == Layout.spacer + i * Layout.lineHeight - scrollTop
      lineBottom == lineTop + Layout.lineHeight
  IN /\ 200 * lineBottom >=
          (2 * settings.guidePosition - settings.guideZoneSize) * Layout.clientHeight
     /\ 200 * lineTop <=
          (2 * settings.guidePosition + settings.guideZoneSize) * Layout.clientHeight

C18_FreshActiveSet ==
  [][Tick /\ mounted =>
       activeLineIndicesRef = {i \in 0 .. (lines - 1) : SpanMeetsBand(i)}]_vars

\* C19: every frame computes with the settings as the latest change handed
\* to handleSettingsChange left them: their scrollSpeed for the advance,
\* their guidePosition and autoCenterSensitivity for the correction.
C19_LatestSettings ==
  [][Tick /\ mounted =>
       scrollPositionRef' =
         scrollPositionRef
           + ScrollAmount(pendingSettings.scrollSpeed, TickElapsed)
           + Correction(ActiveLines(activeLineIndicesRef), scrollTop,
                        pendingSettings, TickElapsed)]_vars

\* C20: a drag lasts from the press of the guide marker to the release of
\* the pointer; a pointer move the prompter handles sets guidePosition to
\* the rounded, clamped percentage of the pointer within the surface, an
\* integer in [10, 90], and outside a drag guidePosition does not change.
C20_GuideDrag ==
  [][/\ (HandleGuideMouseDown => pendingIsDraggingGuide')
     /\ (HandleMouseUp => ~pendingIsDraggingGuide')
     /\ (HandleMouseMove =>
          /\ pendingSettings'.guidePosition \in MinGuide .. MaxGuide
          /\ \E y \in PointerYs :
               LET twice == 2 * pendingSettings'.guidePosition * Layout.clientHeight
                   exact == IF y * 100 < MinGuide * Layout.clientHeight
                              THEN MinGuide * Layout.clientHeight
                            ELSE IF y * 100 > MaxGuide * Layout.clientHeight
                              THEN MaxGuide * Layout.clientHeight
                            ELSE y * 100
               IN /\ twice - Layout.clientHeight <= 2 * exact
                  /\ 2 * exact < twice + Layout.clientHeight)
     /\ (~pendingIsDraggingGuide =>
          pendingSettings'.guidePosition = pendingSettings.guidePosition)]_vars

\* The value a command that steps by d leaves in a setting that held v and
\* is kept within [lo, hi].
Saturated(v, d, lo, hi) ==
  IF v + d < lo THEN lo ELSE IF v + d > hi THEN hi ELSE v + d

\* C21: a zoom command moves fontSize by 2 up or down, and a spacing command
\* lineSpacing by 0.1, from the value the latest change handed to
\* handleSettingsChange left, saturating at [12, 120] and [1, 3]; they
\* leave isScrolling, the scroll position and the speed alone.
C21_ZoomSteps ==
  [][/\ (HandleFontSizeChange =>
          \E d \in {2, -2} :
            pendingSettings'.fontSize =
              Saturated(pendingSettings.fontSize, d, 12, 120))
     /\ (HandleLineSpacingChange =>
          \E d \in {1, -1} :
            pendingSettings'.lineSpacing =
              Saturated(pendingSettings.lineSpacing, d, 10, 30))
     /\ (HandleFontSizeChange \/ HandleLineSpacingChange =>
          /\ UNCHANGED <<isScrolling, pendingIsScrolling, isScrollingRef,
                         frames, scrollPositionRef, scrollTop, scrollSpeedRef>>
          /\ pendingSettings'.scrollSpeed = pendingSettings.scrollSpeed)]_vars

\* C22: setState(v) with a new v drops the entries after the cursor,
\* appends v and puts the cursor on it; undo and redo move the cursor by
\* one and leave the entries alone; the cursor is always on an entry, the
\* current state.
C22_HistoryBuffer ==
  /\ [](/\ currentIndex \in 0 .. (Len(history) - 1)
        /\ pendingIndex \in 0 .. (Len(pendingHistory) - 1))
  /\ [][/\ (SetState =>
              \E v \in Snapshots :
                /\ pendingHistory' =
                     SubSeq(pendingHistory, 1, pendingIndex + 1) \o <<v>>
                /\ pendingIndex' = Len(pendingHistory') - 1)
         /\ (Undo => pendingIndex' = pendingIndex - 1
                        /\ pendingHistory' = pendingHistory)
         /\ (Redo => pendingIndex' = pendingIndex + 1
                        /\ pendingHistory' = pendingHistory)]_vars

C24_NeverBackwards ==
  [][Tick /\ mounted /\ TickElapsed > 0 =>
       scrollPositionRef' >= scrollPositionRef]_vars

\* C25: the correction a frame adds is at most the error in magnitude.
C25_CorrectionWithinError ==
  [][Tick /\ mounted /\ ActiveLines(activeLineIndicesRef) # {} =>
       LET error == MeanCentre(ActiveLines(activeLineIndicesRef), scrollTop)
                      - (Layout.clientHeight * settingsRef.guidePosition) \div 100
           correction == scrollPositionRef' - scrollPositionRef
                           - (scrollSpeedRef * TickElapsed) \div 500
       IN /\ correction <= (IF error >= 0 THEN error ELSE -error)
          /\ -correction <= (IF error >= 0 THEN error ELSE -error)]_vars

\* C26: every wheel or arrow input while Advancing moves the speed by 0.5
\* times its delta, within [1, 100], from the speed the input before it
\* left, rendered or not.
C26_NoIncrementLost ==
  [][HandleScrollChange /\ mounted /\ isScrollingRef =>
       \E d \in {-1, 1} :
         LET asked == pendingSettings.scrollSpeed + 5 * d
             clamped == IF asked < 10 THEN 10
                        ELSE IF asked > 1000 THEN 1000 ELSE asked
         IN /\ pendingSettings'.scrollSpeed = clamped
            /\ scrollSpeedRef' = clamped]_vars

\* The number of frames of scroll the browser holds.
FramesScheduled(fr) == (IF fr.ref = "pending" THEN 1 ELSE 0) + fr.orphans

\* C27: at most one frame of the scroll engine is scheduled.
C27_OneFrame == FramesScheduled(frames) <= 1

\* The engine was resumed after a session that had moved the text: the
\* frame of that session was cancelled and exactly one new frame waits.
C27_Witness ==
  /\ isScrolling
  /\ run.st = "armed"
  /\ run.resumed
  /\ scrollTop > 0
  /\ FramesScheduled(frames) = 1

\* C28: while the script editor dialog is open the engine is not Advancing:
\* in every state where the dialog is rendered (isEditing) the rendered play
\* state is Paused, whichever play/pause input arrived after the editor was
\* opened.
C28_EditorKeepsPaused == isEditing => ~isScrolling

\* C29: every index of the active line set is the index of a line of the
\* current script content: in every state the rendered active set and the
\* ref the scroll loop reads hold only indices from 0 to the number of
\* rendered lines minus one, also after the script was saved with fewer lines.
C29_ActiveIndicesInScript ==
  mounted =>
    /\ activeLineIndices \subseteq 0 .. (lines - 1)
    /\ activeLineIndicesRef \subseteq 0 .. (lines - 1)

\* C30: the elapsed-time counter grows only when the one-second interval
\* fires while the engine is Advancing, and then by exactly 1; a pause
\* leaves it as it is; while the prompter stays mounted it goes down only
\* to 0 and only by the stop command or the reset button; and at most one
\* interval is set at any time.
C30_ElapsedTimer ==
  /\ [](intervals <= 1)
  /\ [][/\ elapsedTime' > elapsedTime =>
             TimerFire /\ isScrolling /\ elapsedTime' = elapsedTime + 1
        /\ (HandlePlayPause /\ cmd' = "pause") => elapsedTime' = elapsedTime
        /\ (elapsedTime' < elapsedTime /\ mounted') =>
             (HandleStop \/ HandleResetTimer) /\ elapsedTime' = 0]_vars

\* The engine was paused after the interval had fired: the counter kept its
\* value and the interval is cleared.
C30_Witness ==
  /\ cmd = "pause"
  /\ ~isScrolling
  /\ ~pendingIsScrolling
  /\ elapsedTime = 1
  /\ intervals = 0

\* C31: after any sequence of setState, undo, redo and resetState, with or
\* without a render between the calls, the history of the hook is not empty
\* and the cursor is on one of its entries, so that the current state
\* history[currentIndex] is defined.
C31_CursorOnEntry ==
  /\ Len(history) >= 1
  /\ 0 <= currentIndex
  /\ currentIndex <= Len(history) - 1
  /\ EntryAt(history, currentIndex) # "undefined"

\* C32: the debounced setState of a value equal to the current entry
\* changes neither the history nor the cursor; so after an undo the commit
\* of the restored state keeps the entries after the cursor, and once the
\* undo is rendered redo is possible and leads to the entry that was undone.
C32_EqualValueKeepsTail ==
  /\ [][(DebounceFire /\ debounce = EntryAt(history, currentIndex)) =>
          UNCHANGED <<pendingHistory, pendingIndex>>]_vars
  /\ [](undone.on => pendingHistory = undone.tail)
  /\ []((undone.on /\ EditorRendered) =>
          /\ canRedo
          /\ EntryAt(history, currentIndex + 1) = undone.entry)

\* An undo has been rendered and the timeout has committed the restored
\* state since.
C32_Witness ==
  /\ undone.on
  /\ undone.committed
  /\ EditorRendered
  /\ debounce = "none"
  /\ editorState = EntryAt(history, currentIndex)
  /\ Len(history) > currentIndex + 1

\* C33: whenever the editor renders a script prop whose title or content
\* differs from the one before, also after its own save, the history is
\* reset to the single entry of the new script with the cursor at 0, and
\* the editor that is rendered then can neither undo nor redo.
C33_ResetOnScriptChange ==
  [][(EditorCommit /\ pendingScript # script) =>
       /\ pendingHistory' = <<pendingScript>>
       /\ pendingIndex' = 0
       /\ EditorAlive' =>
            /\ history' = <<pendingScript>>
            /\ currentIndex' = 0
            /\ ~canUndo'
            /\ ~canRedo']_vars

\* The editor has saved "b" and shows the script it was reset to.
C33_Witness ==
  /\ EditorRendered
  /\ script = "b"
  /\ history = <<"b">>
  /\ currentIndex = 0
  /\ editorState = "b"

\* C34: the periodic auto-save hands a script to onSave only when the
\* editor state differs from the script, and what it compares and saves are
\* the editor state and the script of the last render, which autoSaveRef
\* holds in every state, not those of the render that created the interval.
C34_AutoSaveCurrent ==
  /\ [](EditorAlive =>
          autoSaveRef = [script |-> script, editorState |-> editorState])
  /\ [][AutoSaveFire =>
          /\ editorState # script
          /\ pendingScript' = editorState]_vars

\* The auto-save has saved a state the editor did not have when it mounted.
C34_Witness ==
  /\ autoSaveRef = [script |-> "a", editorState |-> "b"]
  /\ pendingScript = "b"
  /\ script = "a"
  /\ history = <<"a", "b">>

\* C35: in every state the editor, prompter and recorder views have an
\* active script, the list view has none, and an active script is one of
\* the stored scripts.
C35_ViewInvariant ==
  /\ currentView \in {"edit", "prompt", "record"} => activeScript # NoScript
  /\ currentView = "list" => activeScript = NoScript
  /\ activeScript # NoScript => activeScript \in scripts

\* C36: when the Recorder unmounts, the tracks of the stream that is its
\* videoStream at that moment are stopped, and no stream has a live track
\* once the Recorder is gone and every request has been answered.
C36_TracksStoppedOnUnmount ==
  /\ [][RecorderUnmount =>
          (videoStream # NoStream => ~streams'[videoStream].live)]_vars
  /\ []((~recorderMounted /\ requests = <<>>) =>
          \A i \in 1 .. Len(streams) : ~streams[i].live)

\* C37: in every state the audio tracks of the Recorder's current stream
\* are enabled exactly when isMuted is false.
C37_AudioFollowsMute ==
  (recorderMounted /\ videoStream # NoStream) =>
    (streams[videoStream].audio <=> ~isMuted)

====
